---- MODULE Spec2Model ----
(***************************************************************************)
(* The dynamic-filter application: the filter engine (getNestedValue, the  *)
(* seven apply*Filter predicates, applyFilterCondition, filterEmployees,   *)
(* isValidFilterCondition), and the FilterBuilder / App state machine that *)
(* drives it.                                                              *)
(*                                                                         *)
(* JavaScript values are modelled as records with one field per kind, so   *)
(* that values of different kinds can be compared and kept in one set:     *)
(*   t  the kind: "undefined", "null", "string", "number", "NaN",          *)
(*      "boolean", "array", "object" ("NaN" is the number NaN)             *)
(*   s  the characters of a string, a sequence of one-character strings    *)
(*   n  the value of a number (integers only)                              *)
(*   b  the value of a boolean                                             *)
(*   a  the elements of an array, a sequence of values                     *)
(*   o  the own properties of an object, a function from property name     *)
(*      (a string, as characters) to value                                 *)
(* An operation that can throw returns an outcome "true", "false" or       *)
(* "TypeError".                                                            *)
(***************************************************************************)
EXTENDS Integers, Sequences, FiniteSets, TLC

VARIABLES
    conditions,       \* FilterBuilder state: the active conditions, in order
    conditionErrors,  \* FilterBuilder state: the ids flagged by the last Apply
    filteredData,     \* App state: the records handed to the DataTable
    engineCalled,     \* whether the handler that ran last called filterEmployees
    nextId,           \* the number of conditions created so far, plus one
    employees,        \* engine harness: the records argument
    conds,            \* engine harness: the conditions argument
    fieldPaths,       \* engine harness: the path map argument
    tzOffset,         \* the host's local offset from UTC, in minutes
    result,           \* engine harness: the outcome of the last call
    pc                \* engine harness: what was called last

vars == <<conditions, conditionErrors, filteredData, engineCalled, nextId,
          employees, conds, fieldPaths, tzOffset, result, pc>>

uiVars == <<conditions, conditionErrors, filteredData, engineCalled, nextId>>
harnessVars == <<employees, conds, fieldPaths, tzOffset, result, pc>>

----------------------------------------------------------------------------
(* JavaScript values *)

JSValue(t, s, n, b, a, o) == [t |-> t, s |-> s, n |-> n, b |-> b, a |-> a, o |-> o]

Undefined == JSValue("undefined", <<>>, 0, FALSE, <<>>, <<>>)
Null == JSValue("null", <<>>, 0, FALSE, <<>>, <<>>)
NaN == JSValue("NaN", <<>>, 0, FALSE, <<>>, <<>>)
Str(s) == JSValue("string", s, 0, FALSE, <<>>, <<>>)
Num(n) == JSValue("number", <<>>, n, FALSE, <<>>, <<>>)
Bool(b) == JSValue("boolean", <<>>, 0, b, <<>>, <<>>)
Arr(a) == JSValue("array", <<>>, 0, FALSE, a, <<>>)
Obj(o) == JSValue("object", <<>>, 0, FALSE, <<>>, o)

\* value === null || value === undefined
IsNullish(v) == v.t \in {"null", "undefined"}

\* Outcomes of an operation that returns a boolean or throws.
T == "true"
F == "false"
TypeError == "TypeError"
Outcome(b) == IF b THEN T ELSE F

----------------------------------------------------------------------------
(* Strings, as sequences of characters *)

UpperCase == <<"A","B","C","D","E","F","G","H","I","J","K","L","M",
               "N","O","P","Q","R","S","T","U","V","W","X","Y","Z">>
LowerCase == <<"a","b","c","d","e","f","g","h","i","j","k","l","m",
               "n","o","p","q","r","s","t","u","v","w","x","y","z">>
Digits == <<"0","1","2","3","4","5","6","7","8","9">>

Range(seq) == {seq[i] : i \in 1..Len(seq)}

IndexOf(seq, c) == IF \E i \in 1..Len(seq) : seq[i] = c
                   THEN CHOOSE i \in 1..Len(seq) : seq[i] = c
                   ELSE 0

\* String.prototype.toLowerCase
LowerChar(c) == IF IndexOf(UpperCase, c) > 0 THEN LowerCase[IndexOf(UpperCase, c)] ELSE c
toLowerCase(s) == [i \in 1..Len(s) |-> LowerChar(s[i])]

\* String.prototype.includes / startsWith / endsWith
includes(s, sub) ==
    \E i \in 0..(Len(s) - Len(sub)) : SubSeq(s, i + 1, i + Len(sub)) = sub
startsWith(s, sub) == Len(sub) <= Len(s) /\ SubSeq(s, 1, Len(sub)) = sub
endsWith(s, sub) == Len(sub) <= Len(s) /\ SubSeq(s, Len(s) - Len(sub) + 1, Len(s)) = sub

\* String.prototype.trim (the white space of the model is the blank)
RECURSIVE trimStart(_)
trimStart(s) == IF s # <<>> /\ Head(s) = " " THEN trimStart(Tail(s)) ELSE s
RECURSIVE trimEnd(_)
trimEnd(s) == IF s # <<>> /\ s[Len(s)] = " " THEN trimEnd(SubSeq(s, 1, Len(s) - 1)) ELSE s
trim(s) == trimEnd(trimStart(s))

\* String.prototype.split(sep) for a one-character separator: the pieces
\* between separators, "" included ("a..b" gives "a", "", "b"; "" gives "").
RECURSIVE splitFrom(_, _, _)
splitFrom(s, sep, piece) ==
    IF s = <<>> THEN <<piece>>
    ELSE IF Head(s) = sep THEN <<piece>> \o splitFrom(Tail(s), sep, <<>>)
    ELSE splitFrom(Tail(s), sep, Append(piece, Head(s)))
split(s, sep) == splitFrom(s, sep, <<>>)

\* The decimal digits of a natural number, and Number.prototype.toString.
RECURSIVE natToString(_)
natToString(n) == IF n < 10 THEN <<Digits[n + 1]>>
                  ELSE Append(natToString(n \div 10), Digits[(n % 10) + 1])
numberToString(n) == IF n < 0 THEN <<"-">> \o natToString(0 - n) ELSE natToString(n)

\* The value of a string of decimal digits.
IsDigits(s) == s # <<>> /\ \A i \in 1..Len(s) : IndexOf(Digits, s[i]) > 0
RECURSIVE digitsToNat(_)
digitsToNat(s) == IF s = <<>> THEN 0
                  ELSE 10 * digitsToNat(SubSeq(s, 1, Len(s) - 1))
                       + (IndexOf(Digits, s[Len(s)]) - 1)

\* StringToNumber: white space is trimmed, "" is 0, an optionally signed run
\* of decimal digits is its value, anything else is NaN.
stringToNumber(s) ==
    LET u == trim(s) IN
    IF u = <<>> THEN Num(0)
    ELSE IF IsDigits(u) THEN Num(digitsToNat(u))
    ELSE IF Head(u) = "-" /\ IsDigits(Tail(u)) THEN Num(0 - digitsToNat(Tail(u)))
    ELSE IF Head(u) = "+" /\ IsDigits(Tail(u)) THEN Num(digitsToNat(Tail(u)))
    ELSE NaN

\* String(value), for the values of the model: arrays join the strings of
\* their elements with ",", null and undefined elements giving "".
RECURSIVE ToStringValue(_)
RECURSIVE joinValues(_)
joinValues(a) ==
    IF a = <<>> THEN <<>>
    ELSE (IF IsNullish(Head(a)) THEN <<>> ELSE ToStringValue(Head(a)))
         \o (IF Len(a) > 1 THEN <<",">> \o joinValues(Tail(a)) ELSE <<>>)
ToStringValue(v) ==
    CASE v.t = "string" -> v.s
      [] v.t = "number" -> numberToString(v.n)
      [] v.t = "NaN" -> <<"N","a","N">>
      [] v.t = "boolean" -> IF v.b THEN <<"t","r","u","e">> ELSE <<"f","a","l","s","e">>
      [] v.t = "undefined" -> <<"u","n","d","e","f","i","n","e","d">>
      [] v.t = "null" -> <<"n","u","l","l">>
      [] v.t = "array" -> joinValues(v.a)
      [] v.t = "object" -> <<"[","o","b","j","e","c","t"," ","O","b","j","e","c","t","]">>

\* Number(value), and the implicit ToNumber of isNaN(value)
ToNumber(v) ==
    CASE v.t = "number" -> v
      [] v.t = "NaN" -> NaN
      [] v.t = "undefined" -> NaN
      [] v.t = "null" -> Num(0)
      [] v.t = "boolean" -> Num(IF v.b THEN 1 ELSE 0)
      [] v.t = "string" -> stringToNumber(v.s)
      [] v.t = "array" -> stringToNumber(joinValues(v.a))
      [] v.t = "object" -> NaN

\* isNaN(value)
isNaN(v) == ToNumber(v).t = "NaN"

\* Boolean(value): truthiness
ToBoolean(v) ==
    CASE v.t = "boolean" -> v.b
      [] v.t = "number" -> v.n # 0
      [] v.t = "string" -> v.s # <<>>
      [] v.t \in {"undefined", "null", "NaN"} -> FALSE
      [] v.t \in {"array", "object"} -> TRUE

\* value[prop] on a value that is neither null nor undefined: an own
\* property of an object, the length of a string or an array, else undefined.
Length == <<"l","e","n","g","t","h">>
GetProp(v, prop) ==
    CASE v.t = "object" -> IF prop \in DOMAIN v.o THEN v.o[prop] ELSE Undefined
      [] v.t = "string" -> IF prop = Length THEN Num(Len(v.s)) ELSE Undefined
      [] v.t = "array" -> IF prop = Length THEN Num(Len(v.a)) ELSE Undefined
      [] OTHER -> Undefined

----------------------------------------------------------------------------
(* Dates.  A Date is its time value, kept as the day since 1970-01-01 UTC  *)
(* and the millisecond of that day, or the invalid date.  The host keeps   *)
(* one offset from UTC (no daylight-saving change inside the model).       *)

MsPerDay == 86400000
MsPerMinute == 60000
DateOf(day, ms) == [valid |-> TRUE, day |-> day, ms |-> ms]
InvalidDate == [valid |-> FALSE, day |-> 0, ms |-> 0]

\* Carry the millisecond of the day into the day.
normalize(day, ms) == DateOf(day + (ms \div MsPerDay), ms % MsPerDay)

IsLeapYear(y) == (y % 4 = 0 /\ y % 100 # 0) \/ y % 400 = 0
DaysInMonth(y, m) ==
    IF m = 2 THEN (IF IsLeapYear(y) THEN 29 ELSE 28)
    ELSE IF m \in {4, 6, 9, 11} THEN 30 ELSE 31

\* The day number of a civil date (proleptic Gregorian), 1970-01-01 being 0.
DaysFromCivil(y, m, d) ==
    LET yy == IF m <= 2 THEN y - 1 ELSE y
        era == yy \div 400
        yoe == yy - era * 400
        mp == IF m > 2 THEN m - 3 ELSE m + 9
        doy == ((153 * mp + 2) \div 5) + d - 1
        doe == yoe * 365 + (yoe \div 4) - (yoe \div 100) + doy
    IN era * 146097 + doe - 719468

\* Date.parse of the strings of the model: the date-only form YYYY-MM-DD is
\* that day at 00:00 UTC; a string that is no date is the invalid date.
parseDate(s) ==
    IF Len(s) = 10 /\ s[5] = "-" /\ s[8] = "-"
       /\ IsDigits(SubSeq(s, 1, 4)) /\ IsDigits(SubSeq(s, 6, 7)) /\ IsDigits(SubSeq(s, 9, 10))
    THEN LET y == digitsToNat(SubSeq(s, 1, 4))
             m == digitsToNat(SubSeq(s, 6, 7))
             d == digitsToNat(SubSeq(s, 9, 10))
         IN IF m \in 1..12 /\ d \in 1..DaysInMonth(y, m)
            THEN DateOf(DaysFromCivil(y, m, d), 0)
            ELSE InvalidDate
    ELSE InvalidDate

\* new Date(value)
newDate(v) ==
    CASE v.t = "string" -> parseDate(v.s)
      [] v.t = "number" -> normalize(0, v.n)
      [] v.t = "boolean" -> DateOf(0, IF v.b THEN 1 ELSE 0)
      [] v.t = "null" -> DateOf(0, 0)
      [] v.t \in {"undefined", "NaN", "object"} -> InvalidDate
      [] v.t = "array" -> parseDate(joinValues(v.a))

\* Date.prototype.setHours(h, m, s, ms) on a valid date: the local calendar
\* day of the date is kept and its local time of day replaced.
setHours(d, off, h, m, s, ms) ==
    LET local == normalize(d.day, d.ms + off * MsPerMinute)
    IN normalize(local.day, (h * 3600000 + m * 60000 + s * 1000 + ms) - off * MsPerMinute)

\* a <= b on two valid dates (their time values compared)
dateLE(a, b) == a.day < b.day \/ (a.day = b.day /\ a.ms <= b.ms)
dateGE(a, b) == dateLE(b, a)

----------------------------------------------------------------------------
(* The filter engine *)

\* Property names read by the engine
K_value == <<"v","a","l","u","e">>
K_values == <<"v","a","l","u","e","s">>
K_startDate == <<"s","t","a","r","t","D","a","t","e">>
K_endDate == <<"e","n","d","D","a","t","e">>
K_minAmount == <<"m","i","n","A","m","o","u","n","t">>
K_maxAmount == <<"m","a","x","A","m","o","u","n","t">>

\* (mutant of reducePath) `current && current[prop]` in place of
\* `current?.[prop]`: a null on the way is passed on as it is
RECURSIVE reducePathKeepNull(_, _)
reducePathKeepNull(current, props) ==
    IF props = <<>> THEN current
    ELSE reducePathKeepNull(IF IsNullish(current) THEN current
                            ELSE GetProp(current, Head(props)),
                            Tail(props))

\* path.split('.').reduce((current, prop) => current?.[prop], obj)
RECURSIVE reducePath(_, _)
reducePath(current, props) ==
    IF props = <<>> THEN current
    ELSE reducePath(IF IsNullish(current) THEN Undefined ELSE GetProp(current, Head(props)),
                    Tail(props))
getNestedValue(obj, path) == reducePath(obj, split(path, "."))

\* (mutant of applyTextFilter) the record's string not put in lower case
applyTextFilterCaseSensitive(value, operator, filterValue) ==
    IF IsNullish(value) THEN F
    ELSE IF IsNullish(filterValue) THEN TypeError
    ELSE IF GetProp(filterValue, K_value).t # "string" THEN TypeError
    ELSE LET stringValue == ToStringValue(value)
             searchValue == toLowerCase(GetProp(filterValue, K_value).s)
         IN CASE operator = "equals" -> Outcome(stringValue = searchValue)
              [] operator = "contains" -> Outcome(includes(stringValue, searchValue))
              [] operator = "startsWith" -> Outcome(startsWith(stringValue, searchValue))
              [] operator = "endsWith" -> Outcome(endsWith(stringValue, searchValue))
              [] operator = "doesNotContain" -> Outcome(~includes(stringValue, searchValue))
              [] OTHER -> F

applyTextFilter(value, operator, filterValue) ==
    IF IsNullish(value) THEN F
    ELSE IF IsNullish(filterValue) THEN TypeError
    ELSE IF GetProp(filterValue, K_value).t # "string" THEN TypeError
    ELSE LET stringValue == toLowerCase(ToStringValue(value))
             searchValue == toLowerCase(GetProp(filterValue, K_value).s)
         IN CASE operator = "equals" -> Outcome(stringValue = searchValue)
              [] operator = "contains" -> Outcome(includes(stringValue, searchValue))
              [] operator = "startsWith" -> Outcome(startsWith(stringValue, searchValue))
              [] operator = "endsWith" -> Outcome(endsWith(stringValue, searchValue))
              [] operator = "doesNotContain" -> Outcome(~includes(stringValue, searchValue))
              [] OTHER -> F

applyNumberFilter(value, operator, filterValue) ==
    IF IsNullish(value) THEN F
    ELSE IF IsNullish(filterValue) THEN TypeError
    ELSE LET numValue == ToNumber(value)
             filterNum == GetProp(filterValue, K_value)
         IN IF numValue.t = "NaN" \/ isNaN(filterNum) THEN F
            ELSE CASE operator = "equals" ->
                        Outcome(filterNum.t = "number" /\ numValue.n = filterNum.n)
                   [] operator = "greaterThan" -> Outcome(numValue.n > ToNumber(filterNum).n)
                   [] operator = "lessThan" -> Outcome(numValue.n < ToNumber(filterNum).n)
                   [] operator = "greaterThanOrEqual" ->
                        Outcome(numValue.n >= ToNumber(filterNum).n)
                   [] operator = "lessThanOrEqual" ->
                        Outcome(numValue.n <= ToNumber(filterNum).n)
                   [] OTHER -> F

\* (mutant of inDateRange) the start of the range left out of it
afterStartInRange(dateValue, startDate, endDate) ==
    ~dateLE(dateValue, startDate) /\ dateLE(dateValue, endDate)

\* dateValue >= startDate && dateValue <= endDate
inDateRange(dateValue, startDate, endDate) ==
    dateGE(dateValue, startDate) /\ dateLE(dateValue, endDate)

applyDateFilter(value, operator, filterValue, off) ==
    IF IsNullish(value) THEN F
    ELSE IF IsNullish(filterValue) THEN TypeError
    ELSE LET dateValue == newDate(value)
             startDate == newDate(GetProp(filterValue, K_startDate))
             endDate == newDate(GetProp(filterValue, K_endDate))
         IN IF ~dateValue.valid \/ ~startDate.valid \/ ~endDate.valid THEN F
            ELSE CASE operator = "between" ->
                        Outcome(inDateRange(dateValue,
                                            setHours(startDate, off, 0, 0, 0, 0),
                                            setHours(endDate, off, 23, 59, 59, 999)))
                   [] OTHER -> F

\* (mutant of applyAmountFilter) the range test made whatever the operator
applyAmountFilterAnyOperator(value, operator, filterValue) ==
    IF IsNullish(value) THEN F
    ELSE IF IsNullish(filterValue) THEN TypeError
    ELSE LET numValue == ToNumber(value)
             minAmount == GetProp(filterValue, K_minAmount)
             maxAmount == GetProp(filterValue, K_maxAmount)
         IN IF numValue.t = "NaN" \/ isNaN(minAmount) \/ isNaN(maxAmount) THEN F
            ELSE Outcome(numValue.n >= ToNumber(minAmount).n
                         /\ numValue.n <= ToNumber(maxAmount).n)

\* (mutant of applyAmountFilter) the lower bound left out of the range
applyAmountFilterAboveMin(value, operator, filterValue) ==
    IF IsNullish(value) THEN F
    ELSE IF IsNullish(filterValue) THEN TypeError
    ELSE LET numValue == ToNumber(value)
             minAmount == GetProp(filterValue, K_minAmount)
             maxAmount == GetProp(filterValue, K_maxAmount)
         IN IF numValue.t = "NaN" \/ isNaN(minAmount) \/ isNaN(maxAmount) THEN F
            ELSE CASE operator = "between" ->
                        Outcome(numValue.n > ToNumber(minAmount).n
                                /\ numValue.n <= ToNumber(maxAmount).n)
                   [] OTHER -> F

applyAmountFilter(value, operator, filterValue) ==
    IF IsNullish(value) THEN F
    ELSE IF IsNullish(filterValue) THEN TypeError
    ELSE LET numValue == ToNumber(value)
             minAmount == GetProp(filterValue, K_minAmount)
             maxAmount == GetProp(filterValue, K_maxAmount)
         IN IF numValue.t = "NaN" \/ isNaN(minAmount) \/ isNaN(maxAmount) THEN F
            ELSE CASE operator = "between" ->
                        Outcome(numValue.n >= ToNumber(minAmount).n
                                /\ numValue.n <= ToNumber(maxAmount).n)
                   [] OTHER -> F

\* (mutant of applySingleSelectFilter) the two strings compared in lower case
applySingleSelectFilterIgnoringCase(value, operator, filterValue) ==
    IF IsNullish(value) THEN F
    ELSE IF IsNullish(filterValue) THEN TypeError
    ELSE LET stringValue == toLowerCase(ToStringValue(value))
             selectedValue == GetProp(filterValue, K_value)
             same == selectedValue.t = "string" /\ stringValue = toLowerCase(selectedValue.s)
         IN CASE operator = "is" -> Outcome(same)
              [] operator = "isNot" -> Outcome(~same)
              [] OTHER -> F

applySingleSelectFilter(value, operator, filterValue) ==
    IF IsNullish(value) THEN F
    ELSE IF IsNullish(filterValue) THEN TypeError
    ELSE LET stringValue == ToStringValue(value)
             selectedValue == GetProp(filterValue, K_value)
             same == selectedValue.t = "string" /\ stringValue = selectedValue.s
         IN CASE operator = "is" -> Outcome(same)
              [] operator = "isNot" -> Outcome(~same)
              [] OTHER -> F

\* Array.prototype.includes: SameValueZero, so NaN is found, and an array or
\* an object is found only as the very same object, which an element of the
\* filter's own array never is.
arrayIncludes(a, x) ==
    \E i \in 1..Len(a) : a[i].t \notin {"array", "object"} /\ a[i] = x

\* (mutant of someSelected) values.every in place of values.some
allSelected(values, value) ==
    \A i \in 1..Len(values) : arrayIncludes(value, values[i])

\* filterValue.values.some(selectedValue => value.includes(selectedValue))
someSelected(values, value) ==
    \E i \in 1..Len(values) : arrayIncludes(value, values[i])

\* (mutant of notInResult) not every selected value is in the record's array
notAllSelected(values, value) ==
    ~(\A i \in 1..Len(values) : arrayIncludes(value, values[i]))

\* !filterValue.values.some(selectedValue => value.includes(selectedValue))
notInResult(values, value) == ~someSelected(values, value)

\* (mutant of applyMultiSelectFilter) the record value not tested for being
\* an array: includes is called on whatever it is, and only strings and
\* arrays have it
applyMultiSelectFilterNoArrayGuard(value, operator, filterValue) ==
    IF IsNullish(filterValue) THEN TypeError
    ELSE IF GetProp(filterValue, K_values).t # "array" THEN F
    ELSE IF Len(GetProp(filterValue, K_values).a) = 0 THEN F
    ELSE IF operator \notin {"in", "notIn"} THEN F
    ELSE IF value.t \notin {"array", "string"} THEN TypeError
    ELSE LET values == GetProp(filterValue, K_values).a
             some == IF value.t = "array" THEN someSelected(values, value.a)
                     ELSE \E i \in 1..Len(values) :
                             values[i].t = "string" /\ includes(value.s, values[i].s)
         IN Outcome(operator = "in" <=> some)

applyMultiSelectFilter(value, operator, filterValue) ==
    IF value.t # "array" THEN F
    ELSE IF IsNullish(filterValue) THEN TypeError
    ELSE IF GetProp(filterValue, K_values).t # "array" THEN F
    ELSE IF Len(GetProp(filterValue, K_values).a) = 0 THEN F
    ELSE CASE operator = "in" ->
                Outcome(someSelected(GetProp(filterValue, K_values).a, value.a))
           [] operator = "notIn" ->
                Outcome(notInResult(GetProp(filterValue, K_values).a, value.a))
           [] OTHER -> F

\* (mutant of applyBooleanFilter) the null guard left out
applyBooleanFilterNoGuard(value, operator, filterValue) ==
    CASE operator = "is" ->
           IF IsNullish(filterValue) THEN TypeError
           ELSE Outcome(GetProp(filterValue, K_value).t = "boolean"
                        /\ ToBoolean(value) = GetProp(filterValue, K_value).b)
      [] OTHER -> F

applyBooleanFilter(value, operator, filterValue) ==
    IF IsNullish(value) THEN F
    ELSE CASE operator = "is" ->
                IF IsNullish(filterValue) THEN TypeError
                ELSE Outcome(GetProp(filterValue, K_value).t = "boolean"
                             /\ ToBoolean(value) = GetProp(filterValue, K_value).b)
           [] OTHER -> F

\* (mutant of lookupPath) the map not looked at
lookupPathIgnoringMap(paths, field) == Undefined

\* fieldPaths[condition.field], undefined when the map has no such key
lookupPath(paths, field) ==
    IF field \in DOMAIN paths THEN Str(paths[field]) ELSE Undefined

\* fieldPath || condition.field
effectivePath(condition, fieldPath) ==
    IF ToBoolean(fieldPath) THEN fieldPath.s ELSE condition.field

applyFilterCondition(employee, condition, fieldPath, off) ==
    LET fieldValue == getNestedValue(employee, effectivePath(condition, fieldPath))
    IN CASE condition.fieldType = "text" ->
              applyTextFilter(fieldValue, condition.operator, condition.value)
         [] condition.fieldType = "number" ->
              applyNumberFilter(fieldValue, condition.operator, condition.value)
         [] condition.fieldType = "date" ->
              applyDateFilter(fieldValue, condition.operator, condition.value, off)
         [] condition.fieldType = "amount" ->
              applyAmountFilter(fieldValue, condition.operator, condition.value)
         [] condition.fieldType = "singleSelect" ->
              applySingleSelectFilter(fieldValue, condition.operator, condition.value)
         [] condition.fieldType = "multiSelect" ->
              applyMultiSelectFilter(fieldValue, condition.operator, condition.value)
         [] condition.fieldType = "boolean" ->
              applyBooleanFilter(fieldValue, condition.operator, condition.value)
         [] OTHER -> F

\* (mutant of everyCondition) conditions.some in place of conditions.every
RECURSIVE anyCondition(_, _, _, _)
anyCondition(employee, cs, paths, off) ==
    IF cs = <<>> THEN F
    ELSE LET r == applyFilterCondition(employee, Head(cs),
                                       lookupPath(paths, Head(cs).field), off)
         IN IF r = F THEN anyCondition(employee, Tail(cs), paths, off) ELSE r

\* conditions.every(condition => applyFilterCondition(employee, condition,
\* fieldPaths[condition.field])): stops at the first condition that is not
\* true, and an exception thrown by a condition ends it.
RECURSIVE everyCondition(_, _, _, _)
everyCondition(employee, cs, paths, off) ==
    IF cs = <<>> THEN T
    ELSE LET r == applyFilterCondition(employee, Head(cs),
                                       lookupPath(paths, Head(cs).field), off)
         IN IF r = T THEN everyCondition(employee, Tail(cs), paths, off) ELSE r

\* The result of a call that returns an array, or that throws.
Returned(list) == [raised |-> FALSE, value |-> list]
Raised == [raised |-> TRUE, value |-> <<>>]

\* (mutants of keep) the retained element put behind the ones that follow it,
\* and the retained element put in twice
keepBehind(employee, rest) == rest \o <<employee>>
keepTwice(employee, rest) == <<employee, employee>> \o rest

\* Array.prototype.filter keeps a retained element in front of the retained
\* elements that follow it.
keep(employee, rest) == <<employee>> \o rest

\* employees.filter(employee => conditions.every(...))
RECURSIVE filterEvery(_, _, _, _)
filterEvery(es, cs, paths, off) ==
    IF es = <<>> THEN Returned(<<>>)
    ELSE LET r == everyCondition(Head(es), cs, paths, off)
         IN IF r = TypeError THEN Raised
            ELSE LET rest == filterEvery(Tail(es), cs, paths, off)
                 IN IF rest.raised THEN Raised
                    ELSE IF r = T THEN Returned(keep(Head(es), rest.value))
                    ELSE rest

\* (mutant of filterEmployees) no conditions taken to select nothing
filterEmployeesNoneOnEmpty(es, cs, paths, off) ==
    IF Len(cs) = 0 THEN Returned(<<>>) ELSE filterEvery(es, cs, paths, off)

filterEmployees(es, cs, paths, off) ==
    IF Len(cs) = 0 THEN Returned(es) ELSE filterEvery(es, cs, paths, off)

\* The characters of the model in code-unit order, for the relational
\* comparison of two strings.
CharOrder == <<" ", "+", ",", "-", ".">> \o Digits \o UpperCase \o <<"[", "]">> \o LowerCase
RECURSIVE stringLE(_, _)
stringLE(x, y) ==
    IF x = <<>> THEN TRUE
    ELSE IF y = <<>> THEN FALSE
    ELSE IF Head(x) = Head(y) THEN stringLE(Tail(x), Tail(y))
    ELSE IndexOf(CharOrder, Head(x)) < IndexOf(CharOrder, Head(y))

\* x <= y on two values neither of which converts to NaN: two strings (or
\* arrays, through their strings) compare as strings, anything else as numbers.
IsStringish(v) == v.t \in {"string", "array", "object"}
valueLE(x, y) ==
    IF IsStringish(x) /\ IsStringish(y)
    THEN stringLE(ToStringValue(x), ToStringValue(y))
    ELSE ToNumber(x).n <= ToNumber(y).n

\* The cases of the switch of isValidFilterCondition, each on the payload
\* condition.value; reading a property of null or undefined throws.

\* (mutant of validText) the value not trimmed before its length is taken
validTextUntrimmed(value) ==
    IF IsNullish(value) THEN TypeError
    ELSE LET v == GetProp(value, K_value)
         IN IF ~ToBoolean(v) THEN F
            ELSE IF v.t # "string" THEN TypeError
            ELSE Outcome(Len(v.s) > 0)

\* Boolean(value.value && value.value.trim().length > 0)
validText(value) ==
    IF IsNullish(value) THEN TypeError
    ELSE LET v == GetProp(value, K_value)
         IN IF ~ToBoolean(v) THEN F
            ELSE IF v.t # "string" THEN TypeError
            ELSE Outcome(Len(trim(v.s)) > 0)

\* !isNaN(value.value)
validNumber(value) ==
    IF IsNullish(value) THEN TypeError
    ELSE Outcome(~isNaN(GetProp(value, K_value)))

\* (mutant of validDate) the order of the two dates not looked at
validDateUnordered(value) ==
    IF IsNullish(value) THEN TypeError
    ELSE LET startDate == newDate(GetProp(value, K_startDate))
             endDate == newDate(GetProp(value, K_endDate))
         IN Outcome(startDate.valid /\ endDate.valid)

\* !isNaN(startDate.getTime()) && !isNaN(endDate.getTime()) && startDate <= endDate
validDate(value) ==
    IF IsNullish(value) THEN TypeError
    ELSE LET startDate == newDate(GetProp(value, K_startDate))
             endDate == newDate(GetProp(value, K_endDate))
         IN Outcome(startDate.valid /\ endDate.valid /\ dateLE(startDate, endDate))

\* (mutant of validAmount) the order of the two bounds not looked at
validAmountUnordered(value) ==
    IF IsNullish(value) THEN TypeError
    ELSE Outcome(~isNaN(GetProp(value, K_minAmount)) /\ ~isNaN(GetProp(value, K_maxAmount)))

\* !isNaN(value.minAmount) && !isNaN(value.maxAmount) && value.minAmount <= value.maxAmount
validAmount(value) ==
    IF IsNullish(value) THEN TypeError
    ELSE LET minAmount == GetProp(value, K_minAmount)
             maxAmount == GetProp(value, K_maxAmount)
         IN Outcome(~isNaN(minAmount) /\ ~isNaN(maxAmount)
                    /\ valueLE(minAmount, maxAmount))

\* Boolean(value.value)
validSingleSelect(value) ==
    IF IsNullish(value) THEN TypeError
    ELSE Outcome(ToBoolean(GetProp(value, K_value)))

\* Array.isArray(value.values) && value.values.length > 0
validMultiSelect(value) ==
    IF IsNullish(value) THEN TypeError
    ELSE LET values == GetProp(value, K_values)
         IN Outcome(values.t = "array" /\ Len(values.a) > 0)

\* typeof value.value === 'boolean'
validBoolean(value) ==
    IF IsNullish(value) THEN TypeError
    ELSE Outcome(GetProp(value, K_value).t = "boolean")

\* The body of the try block of isValidFilterCondition.
validateCondition(condition) ==
    CASE condition.fieldType = "text" -> validText(condition.value)
      [] condition.fieldType = "number" -> validNumber(condition.value)
      [] condition.fieldType = "date" -> validDate(condition.value)
      [] condition.fieldType = "amount" -> validAmount(condition.value)
      [] condition.fieldType = "singleSelect" -> validSingleSelect(condition.value)
      [] condition.fieldType = "multiSelect" -> validMultiSelect(condition.value)
      [] condition.fieldType = "boolean" -> validBoolean(condition.value)
      [] OTHER -> F

\* (mutant of catch) no try/catch around the validation
uncaught(outcome) == outcome

\* try { ... } catch { return false }
catch(outcome) == IF outcome = TypeError THEN F ELSE outcome

isValidFilterCondition(condition) == catch(validateCondition(condition))

----------------------------------------------------------------------------
(* Records, conditions and path maps the engine is called with *)

\* Property names of Employee
K_id == <<"i","d">>
K_name == <<"n","a","m","e">>
K_department == <<"d","e","p","a","r","t","m","e","n","t">>
K_salary == <<"s","a","l","a","r","y">>
K_joinDate == <<"j","o","i","n","D","a","t","e">>
K_isActive == <<"i","s","A","c","t","i","v","e">>
K_skills == <<"s","k","i","l","l","s">>
K_address == <<"a","d","d","r","e","s","s">>
K_city == <<"c","i","t","y">>
K_projects == <<"p","r","o","j","e","c","t","s">>
K_addressCity == K_address \o <<".">> \o K_city
K_zip == <<"z","i","p">>

\* An object with the given properties: a sequence of <<name, value>> pairs.
Object(pairs) ==
    Obj([k \in {pairs[i][1] : i \in 1..Len(pairs)} |->
            pairs[CHOOSE i \in 1..Len(pairs) : pairs[i][1] = k][2]])

Ann == Object(<<
    <<K_id, Num(1)>>, <<K_name, Str(<<"A","n","n">>)>>,
    <<K_department, Str(<<"E","n","g">>)>>, <<K_salary, Num(95)>>,
    <<K_joinDate, Str(<<"2","0","2","3","-","0","6","-","1","5">>)>>,
    <<K_isActive, Bool(TRUE)>>,
    <<K_skills, Arr(<<Str(<<"J","S">>), Str(<<"S","Q","L">>)>>)>>,
    <<K_address, Object(<< <<K_city, Str(<<"N","Y">>)>> >>)>>,
    <<K_projects, Num(3)>> >>)

\* A record whose numeric fields hold numeric strings and whose address is null
Bob == Object(<<
    <<K_id, Num(2)>>, <<K_name, Str(<<"b","o","b">>)>>,
    <<K_department, Str(<<"H","R">>)>>, <<K_salary, Str(<<"7","0">>)>>,
    <<K_joinDate, Str(<<"2","0","2","3","-","0","6","-","1","4">>)>>,
    <<K_isActive, Bool(FALSE)>>,
    <<K_skills, Arr(<<>>)>>,
    <<K_address, Null>>,
    <<K_projects, Str(<<"7">>)>> >>)

\* A record with missing, null and wrongly-typed fields
Cy == Object(<<
    <<K_id, Num(3)>>, <<K_name, Null>>,
    <<K_department, Str(<<"E","n","g">>)>>, <<K_salary, Undefined>>,
    <<K_isActive, Num(0)>>,
    <<K_joinDate, Str(<<"s","o","o","n">>)>>,
    <<K_skills, Str(<<"S","Q","L">>)>>,
    <<K_address, Object(<< <<K_city, Undefined>> >>)>> >>)

Employees == {Ann, Bob, Cy}

\* A FilterCondition; operator and fieldType are only ever compared with
\* string literals and are kept as atoms.
Condition(id, field, fieldType, operator, value) ==
    [id |-> id, field |-> field, fieldType |-> fieldType, operator |-> operator,
     value |-> value]

TextValue(s) == Object(<< <<K_value, Str(s)>> >>)
NumberValue(v) == Object(<< <<K_value, v>> >>)
DateValue(s, e) == Object(<< <<K_startDate, Str(s)>>, <<K_endDate, Str(e)>> >>)
AmountValue(lo, hi) == Object(<< <<K_minAmount, lo>>, <<K_maxAmount, hi>> >>)
SelectValue(s) == Object(<< <<K_value, Str(s)>> >>)
MultiValue(a) == Object(<< <<K_values, a>> >>)
BooleanValue(b) == Object(<< <<K_value, Bool(b)>> >>)
EmptyObject == Obj(<<>>)

June14 == <<"2","0","2","3","-","0","6","-","1","4">>
June15 == <<"2","0","2","3","-","0","6","-","1","5">>

\* Conditions whose payload has the shape of their field type
ShapedConditions == {
    Condition("c1", K_name, "text", "contains", TextValue(<<"N">>)),
    Condition("c2", K_name, "text", "doesNotContain", TextValue(<<"b">>)),
    Condition("c3", K_addressCity, "text", "equals", TextValue(<<"n","y">>)),
    Condition("c4", K_department, "singleSelect", "isNot", SelectValue(<<"H","R">>)),
    Condition("c5", K_salary, "amount", "between", AmountValue(Num(70), Num(95))),
    Condition("c6", K_joinDate, "date", "between", DateValue(June14, June15)),
    Condition("c7", K_isActive, "boolean", "is", BooleanValue(FALSE)),
    Condition("c8", K_skills, "multiSelect", "notIn", MultiValue(Arr(<<Str(<<"S","Q","L">>)>>))),
    Condition("c9", K_projects, "number", "greaterThan", NumberValue(Num(5))),
    Condition("c10", K_zip, "text", "doesNotContain", TextValue(<<"9">>)) }

\* Conditions whose payload has the wrong shape for the declared field type
MisshapedConditions == {
    Condition("m1", K_name, "text", "equals", EmptyObject),
    Condition("m2", K_projects, "number", "equals", Null) }

HarnessConditions == ShapedConditions \cup MisshapedConditions

\* FIELD_CONFIGS, one entry for each field type and the nested text field
\* (the entries left out repeat these types); of the option lists, the
\* options the records of the model use.
FieldConfig(key, type, operators, options, path) ==
    [key |-> key, type |-> type, operators |-> operators, options |-> options,
     path |-> path]
TextOperators == <<"equals", "contains", "startsWith", "endsWith", "doesNotContain">>
NumberOperators ==
    <<"equals", "greaterThan", "lessThan", "greaterThanOrEqual", "lessThanOrEqual">>
FIELD_CONFIGS == <<
    FieldConfig(K_name, "text", TextOperators, <<>>, Undefined),
    FieldConfig(K_department, "singleSelect", <<"is", "isNot">>,
                <<<<"E","n","g">>, <<"H","R">>>>, Undefined),
    FieldConfig(K_salary, "amount", <<"between">>, <<>>, Undefined),
    FieldConfig(K_joinDate, "date", <<"between">>, <<>>, Undefined),
    FieldConfig(K_isActive, "boolean", <<"is">>, <<>>, Undefined),
    FieldConfig(K_skills, "multiSelect", <<"in", "notIn">>,
                <<<<"J","S">>, <<"S","Q","L">>>>, Undefined),
    FieldConfig(K_addressCity, "text", TextOperators, <<>>, Str(K_addressCity)),
    FieldConfig(K_projects, "number", NumberOperators, <<>>, Undefined) >>

\* FIELD_CONFIGS.find(config => config.key === key); <<>> for undefined
getFieldConfig(key) ==
    IF \E i \in 1..Len(FIELD_CONFIGS) : FIELD_CONFIGS[i].key = key
    THEN <<FIELD_CONFIGS[CHOOSE i \in 1..Len(FIELD_CONFIGS) :
                /\ FIELD_CONFIGS[i].key = key
                /\ \A j \in 1..(i - 1) : FIELD_CONFIGS[j].key # key]>>
    ELSE <<>>

\* The path map the FilterBuilder derives from FIELD_CONFIGS, and no map.
ConfigPaths ==
    [k \in {FIELD_CONFIGS[i].key : i \in {j \in 1..Len(FIELD_CONFIGS) :
                                            ToBoolean(FIELD_CONFIGS[j].path)}} |->
        getFieldConfig(k)[1].path.s]
NoPaths == <<>>
\* A map that sends the key 'zip' to a nested path.
AliasPaths == [k \in {K_zip} |-> K_addressCity]
PathMaps == {NoPaths, ConfigPaths, AliasPaths}

\* Offsets from UTC of the hosts of the model, in minutes
HostOffsets == {-720, -300, 0, 330, 840}

----------------------------------------------------------------------------
(* Calls of filterEmployees on lists of records and conditions *)

MaxRecords == 2
MaxConds == 2

NoResult == Returned(<<>>)

EngineInit ==
    /\ employees = <<>>
    /\ conds = <<>>
    /\ fieldPaths \in PathMaps
    /\ tzOffset \in {-300, 330}
    /\ result = NoResult
    /\ pc = "idle"
    /\ conditions = <<>>
    /\ conditionErrors = {}
    /\ filteredData = <<>>
    /\ engineCalled = FALSE
    /\ nextId = 1

PushEmployee(e) ==
    /\ pc = "idle"
    /\ Len(employees) < MaxRecords
    /\ employees' = Append(employees, e)
    /\ UNCHANGED <<conds, fieldPaths, tzOffset, result, pc>>
    /\ UNCHANGED uiVars

PushCondition(c) ==
    /\ pc = "idle"
    /\ Len(conds) < MaxConds
    /\ conds' = Append(conds, c)
    /\ UNCHANGED <<employees, fieldPaths, tzOffset, result, pc>>
    /\ UNCHANGED uiVars

CallFilterEmployees ==
    /\ pc = "idle"
    /\ result' = filterEmployees(employees, conds, fieldPaths, tzOffset)
    /\ pc' = "filtered"
    /\ UNCHANGED <<employees, conds, fieldPaths, tzOffset>>
    /\ UNCHANGED uiVars

EngineNext ==
    \/ \E e \in Employees : PushEmployee(e)
    \/ \E c \in HarnessConditions : PushCondition(c)
    \/ CallFilterEmployees

EngineSpec == EngineInit /\ [][EngineNext]_vars

----------------------------------------------------------------------------
(* Calls of applyFilterCondition, isValidFilterCondition and filterEmployees  *)
(* on one record and one condition, over every field type, every operator     *)
(* and payloads of every shape                                                *)

FieldTypes == {"text", "number", "date", "amount", "singleSelect", "multiSelect", "boolean"}
Operators == {"equals", "contains", "startsWith", "endsWith", "doesNotContain",
              "greaterThan", "lessThan", "greaterThanOrEqual", "lessThanOrEqual",
              "between", "is", "isNot", "in", "notIn"}

\* FIELD_TYPE_OPERATORS: the operators of each field type
FIELD_TYPE_OPERATORS ==
    [ft \in FieldTypes |->
        CASE ft = "text" -> {"equals", "contains", "startsWith", "endsWith", "doesNotContain"}
          [] ft = "number" -> {"equals", "greaterThan", "lessThan", "greaterThanOrEqual",
                               "lessThanOrEqual"}
          [] ft = "date" -> {"between"}
          [] ft = "amount" -> {"between"}
          [] ft = "singleSelect" -> {"is", "isNot"}
          [] ft = "multiSelect" -> {"in", "notIn"}
          [] ft = "boolean" -> {"is"}]

\* The FilterValue interfaces: an object with exactly the properties of the
\* interface of the field type, each of the declared type (NaN is a number).
IsNumber(v) == v.t \in {"number", "NaN"}
IsStringArray(v) == v.t = "array" /\ \A i \in 1..Len(v.a) : v.a[i].t = "string"
HasShape(fieldType, value) ==
    /\ value.t = "object"
    /\ CASE fieldType = "text" ->
              DOMAIN value.o = {K_value} /\ value.o[K_value].t = "string"
         [] fieldType = "number" ->
              DOMAIN value.o = {K_value} /\ IsNumber(value.o[K_value])
         [] fieldType = "date" ->
              /\ DOMAIN value.o = {K_startDate, K_endDate}
              /\ value.o[K_startDate].t = "string" /\ value.o[K_endDate].t = "string"
         [] fieldType = "amount" ->
              /\ DOMAIN value.o = {K_minAmount, K_maxAmount}
              /\ IsNumber(value.o[K_minAmount]) /\ IsNumber(value.o[K_maxAmount])
         [] fieldType = "singleSelect" ->
              DOMAIN value.o = {K_value} /\ value.o[K_value].t = "string"
         [] fieldType = "multiSelect" ->
              DOMAIN value.o = {K_values} /\ IsStringArray(value.o[K_values])
         [] fieldType = "boolean" ->
              DOMAIN value.o = {K_value} /\ value.o[K_value].t = "boolean"
         [] OTHER -> FALSE

June16 == <<"2","0","2","3","-","0","6","-","1","6">>
June30 == <<"2","0","2","3","-","0","6","-","3","0">>
July01 == <<"2","0","2","3","-","0","7","-","0","1">>
CalendarDates == {June14, June15, June16, June30, July01}
DateStrings == CalendarDates \cup {<<>>, <<"s","o","o","n">>}

Payloads == {
    TextValue(<<"b">>), TextValue(<<>>), TextValue(<<" ">>),
    NumberValue(Num(5)), NumberValue(NaN), NumberValue(Str(<<"5">>)),
    DateValue(June14, June15), DateValue(June15, June14), DateValue(<<>>, <<>>),
    AmountValue(Num(70), Num(95)), AmountValue(Num(95), Num(70)),
    AmountValue(Num(0), NaN),
    MultiValue(Arr(<<Str(<<"S","Q","L">>), Str(<<"G","o">>)>>)),
    MultiValue(Arr(<<Str(<<"G","o">>)>>)), MultiValue(Arr(<<>>)),
    MultiValue(Str(<<"S","Q","L">>)),
    BooleanValue(FALSE), BooleanValue(TRUE),
    Null, Undefined, EmptyObject,
    TextValue(<<" ","b"," ">>), TextValue(<<" "," ">>),
    NumberValue(Num(0)), NumberValue(Num(-3)), NumberValue(Null),
    AmountValue(Num(5), Num(5)), AmountValue(Num(70), Undefined),
    AmountValue(Null, Num(5)), AmountValue(Str(<<"1","0">>), Str(<<"9">>)),
    NumberValue(Num(70)), NumberValue(Str(<<"9","5">>)),
    TextValue(<<"n","Y">>), TextValue(<<"A","N">>) }

ProbeFields == {K_name, K_addressCity, K_zip, K_skills, K_isActive, K_salary}

ProbeConditions ==
    {Condition("p", f, ft, op, v) :
        f \in ProbeFields, ft \in FieldTypes \cup {"rating"},
        op \in Operators \cup {"like"}, v \in Payloads}

\* Date conditions on joinDate, and records dated by a date string
DateConditions ==
    {Condition("d", K_joinDate, "date", "between", DateValue(s, e)) :
        s \in DateStrings, e \in DateStrings}
Dated(d) == Object(<< <<K_id, Num(9)>>, <<K_joinDate, Str(d)>> >>)

\* Values getNestedValue is called on, records or not, and paths
ResolveValues == {Ann, Bob, Cy, Null, Undefined, Str(<<"N","Y">>), Num(5), Bool(TRUE),
                  Arr(<<Str(<<"J","S">>)>>), EmptyObject}
ResolvePaths == {K_name, K_address, K_addressCity, K_addressCity \o <<".">> \o Length,
                 K_skills \o <<".">> \o Length, K_name \o <<".">> \o K_city,
                 K_zip, Length, <<>>, K_address \o <<".">>, <<".">> \o K_name}
ResolveConditions ==
    {Condition("r", path, "text", "contains", TextValue(<<"n">>)) : path \in ResolvePaths}

ProbeInit ==
    /\ \/ /\ employees \in {<<e>> : e \in Employees}
          /\ conds \in {<<c>> : c \in ProbeConditions}
          /\ fieldPaths \in PathMaps
          /\ tzOffset = -300
       \/ /\ employees \in {<<Dated(d)>> : d \in DateStrings}
          /\ conds \in {<<c>> : c \in DateConditions}
          /\ fieldPaths = NoPaths
          /\ tzOffset \in HostOffsets
       \/ /\ employees \in {<<v>> : v \in ResolveValues}
          /\ conds \in {<<c>> : c \in ResolveConditions}
          /\ fieldPaths = NoPaths
          /\ tzOffset = -300
    /\ result = F
    /\ pc = "idle"
    /\ conditions = <<>>
    /\ conditionErrors = {}
    /\ filteredData = <<>>
    /\ engineCalled = FALSE
    /\ nextId = 1

\* applyFilterCondition(employee, condition, fieldPaths[condition.field])
Evaluate ==
    /\ pc = "idle"
    /\ result' = applyFilterCondition(employees[1], conds[1],
                                      lookupPath(fieldPaths, conds[1].field), tzOffset)
    /\ pc' = "evaluated"
    /\ UNCHANGED <<employees, conds, fieldPaths, tzOffset>>
    /\ UNCHANGED uiVars

\* isValidFilterCondition(condition)
Validate ==
    /\ pc = "idle"
    /\ result' = isValidFilterCondition(conds[1])
    /\ pc' = "validated"
    /\ UNCHANGED <<employees, conds, fieldPaths, tzOffset>>
    /\ UNCHANGED uiVars

\* (mutant of FilterOne) applyDateFilter storing what setHours gives back in
\* the payload it was handed
FilterOneStoringDates ==
    /\ pc = "idle"
    /\ result' = filterEmployees(employees, conds, fieldPaths, tzOffset)
    /\ pc' = "filtered"
    /\ conds' = [j \in 1..Len(conds) |->
                    IF conds[j].fieldType = "date" /\ HasShape("date", conds[j].value)
                    THEN [conds[j] EXCEPT !.value = Object(<<
                            <<K_startDate, GetProp(@, K_startDate)>>,
                            <<K_endDate, Num(setHours(newDate(GetProp(@, K_endDate)),
                                                      tzOffset, 23, 59, 59, 999).day)>> >>)]
                    ELSE conds[j]]
    /\ UNCHANGED <<employees, fieldPaths, tzOffset>>
    /\ UNCHANGED uiVars

\* filterEmployees([employee], [condition], fieldPaths)
FilterOne ==
    /\ pc = "idle"
    /\ result' = filterEmployees(employees, conds, fieldPaths, tzOffset)
    /\ pc' = "filtered"
    /\ UNCHANGED <<employees, conds, fieldPaths, tzOffset>>
    /\ UNCHANGED uiVars

\* getNestedValue(employee, condition.field)
Resolve ==
    /\ pc = "idle"
    /\ result' = Returned(getNestedValue(employees[1], conds[1].field))
    /\ pc' = "resolved"
    /\ UNCHANGED <<employees, conds, fieldPaths, tzOffset>>
    /\ UNCHANGED uiVars

ProbeNext == Evaluate \/ Validate \/ FilterOne \/ Resolve

ProbeSpec == ProbeInit /\ [][ProbeNext]_vars

----------------------------------------------------------------------------
(* The FilterBuilder and the App around it *)

\* Well-typed employee records, the data of the App
Bea == Object(<<
    <<K_id, Num(4)>>, <<K_name, Str(<<"B","e","a">>)>>,
    <<K_department, Str(<<"H","R">>)>>, <<K_salary, Num(70)>>,
    <<K_joinDate, Str(June14)>>, <<K_isActive, Bool(FALSE)>>,
    <<K_skills, Arr(<<>>)>>,
    <<K_address, Object(<< <<K_city, Str(<<"L","A">>)>> >>)>>,
    <<K_projects, Num(7)>> >>)
Cal == Object(<<
    <<K_id, Num(5)>>, <<K_name, Str(<<"C","a","l">>)>>,
    <<K_department, Str(<<"E","n","g">>)>>, <<K_salary, Num(80)>>,
    <<K_joinDate, Str(June16)>>, <<K_isActive, Bool(TRUE)>>,
    <<K_skills, Arr(<<Str(<<"S","Q","L">>)>>)>>,
    <<K_address, Object(<< <<K_city, Str(<<"N","Y">>)>> >>)>>,
    <<K_projects, Num(5)>> >>)
mockEmployees == <<Ann, Bea>>

\* The conditions a session creates
MaxAdds == 2

\* What the user types and picks
TypedTexts == {<<>>, <<"a">>}
TypedNumbers == {<<>>, <<"5">>}
TypedMinAmounts == {<<"9","9">>}
TypedMaxAmounts == {<<>>}
PickedDates == {June15}
PickedOperators == {"equals", "doesNotContain"}
PickedFields == {K_name, K_department, K_salary, K_joinDate, K_isActive, K_skills,
                 K_projects}
PickedOptions == {<<"E","n","g">>}
PickedSkills == {<<>>, <<Str(<<"S","Q","L">>)>>}

\* parseFloat of what a number input holds: "" is NaN
parseFloat(s) == IF trim(s) = <<>> THEN NaN ELSE stringToNumber(s)

\* (mutant of getDefaultValueForFieldType) a text condition starts with a
\* letter in its input
getDefaultValueForFieldTypeFilled(fieldType) ==
    CASE fieldType = "text" -> TextValue(<<"a">>)
      [] fieldType = "number" -> NumberValue(Num(0))
      [] fieldType = "date" -> DateValue(<<>>, <<>>)
      [] fieldType = "amount" -> AmountValue(Num(0), Num(0))
      [] fieldType = "singleSelect" -> SelectValue(<<>>)
      [] fieldType = "multiSelect" -> MultiValue(Arr(<<>>))
      [] fieldType = "boolean" -> BooleanValue(FALSE)
      [] OTHER -> TextValue(<<>>)

\* getDefaultValueForFieldType of FilterBuilder and of FilterCondition, which
\* return the same payloads
getDefaultValueForFieldType(fieldType) ==
    CASE fieldType = "text" -> TextValue(<<>>)
      [] fieldType = "number" -> NumberValue(Num(0))
      [] fieldType = "date" -> DateValue(<<>>, <<>>)
      [] fieldType = "amount" -> AmountValue(Num(0), Num(0))
      [] fieldType = "singleSelect" -> SelectValue(<<>>)
      [] fieldType = "multiSelect" -> MultiValue(Arr(<<>>))
      [] fieldType = "boolean" -> BooleanValue(FALSE)
      [] OTHER -> TextValue(<<>>)

\* { ...value, [key]: v }
With(value, key, v) ==
    Obj([k \in DOMAIN value.o \cup {key} |-> IF k = key THEN v ELSE value.o[k]])

\* prev.map(condition => condition.id === id ? updatedCondition : condition)
replaceCondition(cs, id, updated) ==
    [i \in 1..Len(cs) |-> IF cs[i].id = id THEN updated ELSE cs[i]]

\* prev.filter(condition => condition.id !== id)
RECURSIVE removeCondition(_, _)
removeCondition(cs, id) ==
    IF cs = <<>> THEN <<>>
    ELSE IF Head(cs).id # id THEN <<Head(cs)>> \o removeCondition(Tail(cs), id)
    ELSE removeCondition(Tail(cs), id)

\* (mutant of validationErrors) every condition flagged when one fails
flagAll(cs) ==
    IF \E i \in 1..Len(cs) : isValidFilterCondition(cs[i]) # T
    THEN {cs[i].id : i \in 1..Len(cs)} ELSE {}

\* The errors object handleApplyFilters builds: the ids of the conditions
\* that fail isValidFilterCondition.
validationErrors(cs) ==
    {cs[i].id : i \in {j \in 1..Len(cs) : isValidFilterCondition(cs[j]) # T}}

UiInit ==
    /\ conditions = <<>>
    /\ conditionErrors = {}
    /\ filteredData = mockEmployees
    /\ engineCalled = FALSE
    /\ nextId = 1
    /\ tzOffset = -300
    /\ employees = <<>>
    /\ conds = <<>>
    /\ fieldPaths = ConfigPaths
    /\ result = F
    /\ pc = "ui"

\* The id `filter-${Date.now()}-${Math.random()}` is a token no condition
\* has borne before: the number of the condition in the order of creation.
HandleAddCondition ==
    /\ nextId <= MaxAdds
    /\ nextId' = nextId + 1
    /\ LET firstField == FIELD_CONFIGS[1]
           newCondition == Condition(nextId, firstField.key, firstField.type,
                                     firstField.operators[1],
                                     getDefaultValueForFieldType(firstField.type))
       IN conditions' = Append(conditions, newCondition)
    /\ engineCalled' = FALSE
    /\ UNCHANGED <<conditionErrors, filteredData>>
    /\ UNCHANGED harnessVars

\* (mutant of HandleUpdateCondition) the filter applied anew at every change
HandleUpdateConditionApplying(id, updatedCondition) ==
    /\ conditions' = replaceCondition(conditions, id, updatedCondition)
    /\ engineCalled' = FALSE
    /\ LET filtered == filterEmployees(mockEmployees, conditions', ConfigPaths, tzOffset)
       IN filteredData' = IF filtered.raised THEN filteredData ELSE filtered.value
    /\ UNCHANGED <<conditionErrors, nextId>>
    /\ UNCHANGED harnessVars

\* handleUpdateCondition(id, updatedCondition), as each handler of a
\* FilterCondition row calls it through onChange
HandleUpdateCondition(id, updatedCondition) ==
    /\ conditions' = replaceCondition(conditions, id, updatedCondition)
    /\ engineCalled' = FALSE
    /\ UNCHANGED <<conditionErrors, filteredData, nextId>>
    /\ UNCHANGED harnessVars

\* (mutant of HandleFieldChange) the operator of the old field kept
HandleFieldChangeKeepingOperator(i, newFieldKey) ==
    LET condition == conditions[i]
        newFieldConfig == getFieldConfig(newFieldKey)
    IN /\ newFieldConfig # <<>>
       /\ HandleUpdateCondition(condition.id,
              [condition EXCEPT !.field = newFieldKey,
                                !.fieldType = newFieldConfig[1].type,
                                !.value = getDefaultValueForFieldType(newFieldConfig[1].type)])

HandleFieldChange(i, newFieldKey) ==
    LET condition == conditions[i]
        newFieldConfig == getFieldConfig(newFieldKey)
    IN /\ newFieldConfig # <<>>
       /\ HandleUpdateCondition(condition.id,
              [condition EXCEPT !.field = newFieldKey,
                                !.fieldType = newFieldConfig[1].type,
                                !.operator = newFieldConfig[1].operators[1],
                                !.value = getDefaultValueForFieldType(newFieldConfig[1].type)])

HandleOperatorChange(i, operator) ==
    LET condition == conditions[i]
    IN HandleUpdateCondition(condition.id, [condition EXCEPT !.operator = operator])

\* handleValueChange(newValue)
HandleValueChange(i, newValue) ==
    LET condition == conditions[i]
    IN HandleUpdateCondition(condition.id, [condition EXCEPT !.value = newValue])

\* The onChange of the input rendered for the type of the condition's field
TextInputChange(i, text) ==
    /\ getFieldConfig(conditions[i].field)[1].type = "text"
    /\ HandleValueChange(i, Object(<< <<K_value, Str(text)>> >>))

NumberInputChange(i, text) ==
    /\ getFieldConfig(conditions[i].field)[1].type = "number"
    /\ LET numValue == parseFloat(text)
       IN HandleValueChange(i, Object(<< <<K_value,
                                IF numValue.t = "NaN" THEN Num(0) ELSE numValue>> >>))

StartDateChange(i, text) ==
    /\ getFieldConfig(conditions[i].field)[1].type = "date"
    /\ HandleValueChange(i, With(conditions[i].value, K_startDate, Str(text)))

EndDateChange(i, text) ==
    /\ getFieldConfig(conditions[i].field)[1].type = "date"
    /\ HandleValueChange(i, With(conditions[i].value, K_endDate, Str(text)))

MinAmountChange(i, text) ==
    /\ getFieldConfig(conditions[i].field)[1].type = "amount"
    /\ LET numValue == parseFloat(text)
       IN HandleValueChange(i, With(conditions[i].value, K_minAmount,
                                    IF numValue.t = "NaN" THEN Num(0) ELSE numValue))

MaxAmountChange(i, text) ==
    /\ getFieldConfig(conditions[i].field)[1].type = "amount"
    /\ LET numValue == parseFloat(text)
       IN HandleValueChange(i, With(conditions[i].value, K_maxAmount,
                                    IF numValue.t = "NaN" THEN Num(0) ELSE numValue))

SingleSelectChange(i, option) ==
    /\ getFieldConfig(conditions[i].field)[1].type = "singleSelect"
    /\ HandleValueChange(i, Object(<< <<K_value, Str(option)>> >>))

MultiSelectChange(i, selected) ==
    /\ getFieldConfig(conditions[i].field)[1].type = "multiSelect"
    /\ HandleValueChange(i, Object(<< <<K_values, Arr(selected)>> >>))

BooleanChange(i, checked) ==
    /\ getFieldConfig(conditions[i].field)[1].type = "boolean"
    /\ HandleValueChange(i, Object(<< <<K_value, Bool(checked)>> >>))

HandleRemoveCondition(i) ==
    /\ conditions' = removeCondition(conditions, conditions[i].id)
    /\ conditionErrors' = conditionErrors \ {conditions[i].id}
    /\ engineCalled' = FALSE
    /\ UNCHANGED <<filteredData, nextId>>
    /\ UNCHANGED harnessVars

\* The Clear All button is rendered when there are conditions.
HandleClearAll ==
    /\ Len(conditions) > 0
    /\ conditions' = <<>>
    /\ conditionErrors' = {}
    /\ filteredData' = mockEmployees
    /\ engineCalled' = FALSE
    /\ UNCHANGED nextId
    /\ UNCHANGED harnessVars

\* The Apply Filters button is rendered when there are conditions.  An
\* exception out of filterEmployees ends the handler after the errors are set.
HandleApplyFilters ==
    /\ Len(conditions) > 0
    /\ LET errors == validationErrors(conditions)
           filtered == filterEmployees(mockEmployees, conditions, ConfigPaths, tzOffset)
       IN /\ conditionErrors' = errors
          /\ IF errors # {}
             THEN /\ engineCalled' = FALSE
                  /\ UNCHANGED filteredData
             ELSE /\ engineCalled' = TRUE
                  /\ filteredData' = IF filtered.raised THEN filteredData ELSE filtered.value
    /\ UNCHANGED <<conditions, nextId>>
    /\ UNCHANGED harnessVars

\* The rows on the screen, and the menus of a row
Rows == 1..Len(conditions)
OperatorMenu(i) == Range(getFieldConfig(conditions[i].field)[1].operators)
OptionMenu(i) == Range(getFieldConfig(conditions[i].field)[1].options)
FieldMenu == {FIELD_CONFIGS[c].key : c \in 1..Len(FIELD_CONFIGS)}

Next ==
    \/ HandleAddCondition
    \/ \E i \in Rows, key \in FieldMenu \cap PickedFields : HandleFieldChange(i, key)
    \/ \E i \in Rows : \E op \in OperatorMenu(i) \cap PickedOperators :
          HandleOperatorChange(i, op)
    \/ \E i \in Rows, text \in TypedTexts : TextInputChange(i, text)
    \/ \E i \in Rows, text \in TypedNumbers : NumberInputChange(i, text)
    \/ \E i \in Rows, text \in PickedDates : StartDateChange(i, text)
    \/ \E i \in Rows, text \in PickedDates : EndDateChange(i, text)
    \/ \E i \in Rows, text \in TypedMinAmounts : MinAmountChange(i, text)
    \/ \E i \in Rows, text \in TypedMaxAmounts : MaxAmountChange(i, text)
    \/ \E i \in Rows : \E option \in OptionMenu(i) \cap PickedOptions :
          SingleSelectChange(i, option)
    \/ \E i \in Rows, selected \in PickedSkills : MultiSelectChange(i, selected)
    \/ \E i \in Rows, checked \in BOOLEAN : BooleanChange(i, checked)
    \/ \E i \in Rows : HandleRemoveCondition(i)
    \/ HandleClearAll
    \/ HandleApplyFilters

Spec == UiInit /\ [][Next]_vars

----------------------------------------------------------------------------
(* Properties of filterEmployees *)

\* The outcome of one condition on one record, with the map's path for it.
evaluate(employee, condition) ==
    applyFilterCondition(employee, condition, lookupPath(fieldPaths, condition.field),
                         tzOffset)

AllShaped == \A j \in 1..Len(conds) : conds[j] \in ShapedConditions

\* C1: with a non-empty condition list whose payloads have the shape of their
\* field types, filterEmployees returns, the result holds only records of the
\* input, and a record of the input is in the result if and only if every
\* condition evaluates to true for it (the same holds of any call that returns).
C1_AndAcrossConditions ==
    (pc = "filtered" /\ conds # <<>>) =>
        /\ AllShaped => ~result.raised
        /\ ~result.raised =>
              /\ Range(result.value) \subseteq Range(employees)
              /\ \A i \in 1..Len(employees) :
                    (employees[i] \in Range(result.value))
                    <=> (\A j \in 1..Len(conds) : evaluate(employees[i], conds[j]) = T)

\* Two shaped conditions, one record that satisfies both and is kept, one
\* that fails one of them and is dropped.
C1_Witness ==
    /\ pc = "filtered" /\ Len(conds) = 2 /\ AllShaped /\ Len(employees) = 2
    /\ ~result.raised /\ Len(result.value) = 1
    /\ \E i \in 1..2 : evaluate(employees[i], conds[1]) = T
                       /\ evaluate(employees[i], conds[2]) = F

\* C2: with no conditions filterEmployees returns the records it was given,
\* the same records in the same order.
C2_EmptyIsIdentity ==
    (pc = "filtered" /\ conds = <<>>) => result = Returned(employees)

C2_Witness ==
    pc = "filtered" /\ conds = <<>> /\ Len(employees) = 2
    /\ employees[1] # employees[2] /\ result.value = employees

\* C3 (as claimed): filterEmployees never raises, whatever the shape of the
\* conditions' payloads.
C3_NeverRaises == pc = "filtered" => ~result.raised

\* filterEmployees(filterEmployees(R, [C1], P), [C2], P)
Chained ==
    LET first == filterEmployees(employees, <<conds[1]>>, fieldPaths, tzOffset)
    IN IF first.raised THEN Raised
       ELSE filterEmployees(first.value, <<conds[2]>>, fieldPaths, tzOffset)

\* C4: filtering by [C1, C2] gives the same outcome, the same sequence, as
\* filtering by [C1] and then filtering the result by [C2].
C4_SequentialDecomposition ==
    (pc = "filtered" /\ Len(conds) = 2) => result = Chained

\* Two records kept by both conditions, in order.
C4_Witness ==
    /\ pc = "filtered" /\ Len(conds) = 2 /\ conds[1] # conds[2]
    /\ ~result.raised /\ Len(result.value) = 2 /\ result.value[1] # result.value[2]
    /\ result = Chained

\* s is t with some elements left out
RECURSIVE IsSubsequence(_, _)
IsSubsequence(s, t) ==
    IF s = <<>> THEN TRUE
    ELSE IF t = <<>> THEN FALSE
    ELSE IF Head(s) = Head(t) THEN IsSubsequence(Tail(s), Tail(t))
    ELSE IsSubsequence(s, Tail(t))

\* C5: what filterEmployees returns is a subsequence of its input: the kept
\* records are in the input's order and none appears more often than there.
C5_OutputIsSubsequence ==
    (pc = "filtered" /\ ~result.raised) => IsSubsequence(result.value, employees)

\* Two distinct records, both kept by a non-empty condition list.
C5_Witness ==
    /\ pc = "filtered" /\ conds # <<>> /\ ~result.raised
    /\ Len(employees) = 2 /\ employees[1] # employees[2]
    /\ result.value = employees

\* filterEmployees(R, Cs', P) for the other order of a two-condition list
Swapped == filterEmployees(employees, <<conds[2], conds[1]>>, fieldPaths, tzOffset)

\* filterEmployees(R, Cs ++ [Cs[1]], P): the list with its first condition
\* repeated at the end
Repeated ==
    filterEmployees(employees, Append(conds, conds[1]), fieldPaths, tzOffset)

\* C29 (as claimed): the outcome of filterEmployees is the same for the two
\* orders of a two-condition list, and the same when a condition of the list
\* is repeated in it.
C29_OrderIndependent ==
    (pc = "filtered" /\ conds # <<>>) =>
        /\ Len(conds) = 2 => result = Swapped
        /\ result = Repeated

\* C29 (what the code keeps): the two orders that both return, return the
\* same records, and so does a list with a repeated condition.
C29_ReturningOrdersAgree ==
    (pc = "filtered" /\ conds # <<>>) =>
        /\ (Len(conds) = 2 /\ ~result.raised /\ ~Swapped.raised) => result = Swapped
        /\ result = Repeated

\* One order returns and the other raises.
C29_OrdersDiverge ==
    /\ pc = "filtered" /\ Len(conds) = 2 /\ employees # <<>>
    /\ ~result.raised /\ Swapped.raised

----------------------------------------------------------------------------
(* Properties of single conditions *)

\* The value the condition's effective path resolves to on the record
resolved(employee, condition) ==
    getNestedValue(employee,
                   effectivePath(condition, lookupPath(fieldPaths, condition.field)))

\* C6: when the condition's effective path resolves to null or undefined on
\* the record, the condition evaluates to false (it does not raise), for
\* every field type, operator and payload, and filterEmployees with that
\* condition returns without the record.
C6_AbsentNeverMatches ==
    (pc \in {"evaluated", "filtered"} /\ IsNullish(resolved(employees[1], conds[1]))) =>
        /\ pc = "evaluated" => result = F
        /\ pc = "filtered" => result = Returned(<<>>)

\* The path runs through a null address, the operator is a negative one.
C6_Witness ==
    /\ pc = "evaluated" /\ result = F
    /\ employees[1] = Bob /\ conds[1].field = K_addressCity
    /\ conds[1].fieldType = "text" /\ conds[1].operator = "doesNotContain"
    /\ conds[1].value = TextValue(<<"b">>)
    /\ resolved(employees[1], conds[1]) = Undefined

\* C7: isValidFilterCondition returns a boolean for every condition, whatever
\* its payload, and false for every unrecognized fieldType.
C7_ValidatorNeverRaises ==
    pc = "validated" =>
        /\ result \in {T, F}
        /\ conds[1].fieldType \notin FieldTypes => result = F

\* A validation whose try block threw, answered false.
C7_Witness ==
    /\ pc = "validated" /\ result = F
    /\ validateCondition(conds[1]) = TypeError

IsIsoDate(s) == s \in CalendarDates

\* C9: for a date 'between' condition whose startDate <= endDate are calendar
\* dates and a record dated by a calendar date, the record matches if and
\* only if its date is from startDate to endDate, both days included,
\* whatever the host's offset from UTC (the dates compared as the ISO strings
\* they are).
C9_BetweenIsDayInclusive ==
    LET c == conds[1]
        d == GetProp(employees[1], K_joinDate).s
        s == GetProp(c.value, K_startDate).s
        e == GetProp(c.value, K_endDate).s
    IN (pc = "evaluated" /\ c \in DateConditions
        /\ IsIsoDate(d) /\ IsIsoDate(s) /\ IsIsoDate(e) /\ stringLE(s, e)) =>
            (result = T <=> (stringLE(s, d) /\ stringLE(d, e)))

\* West of Greenwich, a record dated the first day of a range of several days
C9_Witness ==
    /\ pc = "evaluated" /\ conds[1] \in DateConditions /\ tzOffset < 0
    /\ GetProp(conds[1].value, K_startDate).s = June30
    /\ GetProp(conds[1].value, K_endDate).s = July01
    /\ GetProp(employees[1], K_joinDate).s = June30
    /\ result = T

Negation(outcome) == IF outcome = T THEN F ELSE IF outcome = F THEN T ELSE outcome

\* What 'in' gives for the record and the payload of the condition
inOutcome == evaluate(employees[1], [conds[1] EXCEPT !.operator = "in"])

IsNotInProbe ==
    /\ pc = "evaluated" /\ conds[1] \in ProbeConditions
    /\ conds[1].fieldType = "multiSelect" /\ conds[1].operator = "notIn"
    /\ ~IsNullish(conds[1].value)

\* C10 (as claimed): for every record value and every values payload, notIn
\* gives the negation of what in gives.
C10_NotInNegatesIn == IsNotInProbe => result = Negation(inOutcome)

\* C10 (amended): when the record value is an array and the payload's values
\* is a non-empty array, notIn gives the negation of what in gives; otherwise
\* both give false.
C10_NotInNegatesInOnArrays ==
    IsNotInProbe =>
        LET value == resolved(employees[1], conds[1])
            values == GetProp(conds[1].value, K_values)
        IN IF value.t = "array" /\ values.t = "array" /\ Len(values.a) > 0
           THEN result \in {T, F} /\ result = Negation(inOutcome)
           ELSE result = F /\ inOutcome = F

\* Some but not all of the selected values are among the record's skills.
C10_Witness ==
    /\ IsNotInProbe /\ employees[1] = Ann /\ conds[1].field = K_skills
    /\ conds[1].value = MultiValue(Arr(<<Str(<<"S","Q","L">>), Str(<<"G","o">>)>>))
    /\ result = F /\ inOutcome = T

IsInProbe ==
    /\ pc = "evaluated" /\ conds[1] \in ProbeConditions
    /\ conds[1].fieldType = "multiSelect" /\ conds[1].operator = "in"
    /\ ~IsNullish(conds[1].value)

\* The record's value and the payload's values are a sequence and a
\* non-empty sequence, and have an element in common.
SharesAnElement(value, values) ==
    /\ value.t = "array"
    /\ values.t = "array" /\ Len(values.a) > 0
    /\ Range(value.a) \cap Range(values.a) # {}

\* C11: the multiSelect operator 'in' gives true if and only if the record's
\* value is a sequence, the payload's values is a non-empty sequence and the
\* two have an element in common; in every other case it gives false.
C11_InIsIntersection ==
    IsInProbe =>
        result = Outcome(SharesAnElement(resolved(employees[1], conds[1]),
                                         GetProp(conds[1].value, K_values)))

\* One of the two selected values is among the record's skills.
C11_Witness ==
    /\ IsInProbe /\ employees[1] = Ann /\ conds[1].field = K_skills
    /\ conds[1].value = MultiValue(Arr(<<Str(<<"S","Q","L">>), Str(<<"G","o">>)>>))
    /\ result = T

\* A condition of a field type with a payload of that type's shape and an
\* operator that is none of that type's operators
IsForeignOperator(c) ==
    /\ c.fieldType \in FieldTypes
    /\ c.operator \notin FIELD_TYPE_OPERATORS[c.fieldType]
    /\ HasShape(c.fieldType, c.value)

\* C12: a condition whose operator is not one of its field type's operators
\* (its payload having the shape of the field type) evaluates to false, not
\* to an error, on every record, and filterEmployees with it returns no
\* record.
C12_ForeignOperatorFailsClosed ==
    (pc \in {"evaluated", "filtered"} /\ IsForeignOperator(conds[1])) =>
        /\ pc = "evaluated" => result = F
        /\ pc = "filtered" => result = Returned(<<>>)

\* 'between' on a text field whose value the record would match with 'contains'
C12_Witness ==
    /\ pc = "evaluated" /\ IsForeignOperator(conds[1])
    /\ conds[1].fieldType = "text" /\ conds[1].operator = "between"
    /\ employees[1] = Bob /\ conds[1].field = K_name
    /\ evaluate(employees[1], [conds[1] EXCEPT !.operator = "contains"]) = T
    /\ result = F

\* The value has the property: an own property of an object, the length of
\* a string or an array.
HasProperty(v, prop) ==
    \/ v.t = "object" /\ prop \in DOMAIN v.o
    \/ v.t \in {"string", "array"} /\ prop = Length

\* C13: getNestedValue(value, path) returns, without raising, the value
\* reached by reading the names of the dot-separated path one after the other
\* from the left, and undefined when a value on the way is null or undefined
\* or has no property of the next name; this for records, null, undefined and
\* primitive values alike.
C13_ResolveWalksThePath ==
    pc = "resolved" =>
        LET props == split(conds[1].field, ".")
            n == Len(props)
            at[k \in 0..n] ==
                IF k = 0 THEN employees[1]
                ELSE IF IsNullish(at[k - 1]) THEN Undefined
                ELSE GetProp(at[k - 1], props[k])
        IN /\ ~result.raised
           /\ result.value = at[n]
           /\ (\E k \in 0..(n - 1) :
                  IsNullish(at[k]) \/ ~HasProperty(at[k], props[k + 1]))
              => result.value = Undefined

\* address.city read on a record whose address is null
C13_Witness ==
    /\ pc = "resolved" /\ employees[1] = Bob /\ conds[1].field = K_addressCity
    /\ GetProp(employees[1], K_address) = Null
    /\ result = Returned(Undefined)

----------------------------------------------------------------------------
(* Properties of the predicates *)

\* applyFilterCondition was called with a condition of the field type and a
\* payload that is an object, on a record whose value is not absent
IsApplied(fieldType) ==
    /\ pc = "evaluated" /\ conds[1] \in ProbeConditions
    /\ conds[1].fieldType = fieldType
    /\ ~IsNullish(conds[1].value)
    /\ ~IsNullish(resolved(employees[1], conds[1]))

\* The comparison of two numbers an operator of the number type stands for
NumericComparison(operator, a, b) ==
    CASE operator = "equals" -> a = b
      [] operator = "greaterThan" -> a > b
      [] operator = "lessThan" -> a < b
      [] operator = "greaterThanOrEqual" -> a >= b
      [] operator = "lessThanOrEqual" -> a <= b

\* C21 (as claimed): on a record value that is not absent, the number
\* predicate converts the record value and the filter's value to numbers,
\* gives false when either is not a number and otherwise the comparison of
\* the two numbers, for each of its five operators.
C21_NumberComparesCoerced ==
    (IsApplied("number") /\ conds[1].operator \in FIELD_TYPE_OPERATORS["number"]) =>
        LET numValue == ToNumber(resolved(employees[1], conds[1]))
            filterNum == ToNumber(GetProp(conds[1].value, K_value))
        IN result = IF numValue.t = "NaN" \/ filterNum.t = "NaN" THEN F
                    ELSE Outcome(NumericComparison(conds[1].operator,
                                                   numValue.n, filterNum.n))

\* Two characters that are the same but for the case of a letter
SameLetter(c, d) ==
    c = d \/ \E i \in 1..Len(UpperCase) : {c, d} = {UpperCase[i], LowerCase[i]}

\* b occurs in a from position i on, case apart
OccursAt(a, b, i) ==
    /\ i + Len(b) - 1 <= Len(a)
    /\ \A k \in 1..Len(b) : SameLetter(a[i + k - 1], b[k])

\* The relation of two strings an operator of the text type stands for,
\* case apart
TextComparison(operator, a, b) ==
    CASE operator = "equals" -> Len(a) = Len(b) /\ OccursAt(a, b, 1)
      [] operator = "contains" -> \E i \in 1..(Len(a) + 1) : OccursAt(a, b, i)
      [] operator = "startsWith" -> OccursAt(a, b, 1)
      [] operator = "endsWith" -> Len(b) <= Len(a) /\ OccursAt(a, b, Len(a) - Len(b) + 1)
      [] operator = "doesNotContain" -> ~\E i \in 1..(Len(a) + 1) : OccursAt(a, b, i)

\* C22: on a record value that is not absent and a filter value that is a
\* string, the text predicate compares the string of the record value with
\* the filter's string without regard to case: equals is equality, contains
\* substring, startsWith prefix, endsWith suffix, and doesNotContain the
\* negation of contains.
C22_TextIsCaseInsensitive ==
    (IsApplied("text") /\ conds[1].operator \in FIELD_TYPE_OPERATORS["text"]
     /\ HasShape("text", conds[1].value)) =>
        result = Outcome(TextComparison(conds[1].operator,
                                        ToStringValue(resolved(employees[1], conds[1])),
                                        GetProp(conds[1].value, K_value).s))

\* "Ann" starts with "AN"
C22_Witness ==
    /\ IsApplied("text") /\ conds[1].operator = "startsWith"
    /\ employees[1] = Ann /\ conds[1].field = K_name
    /\ conds[1].value = TextValue(<<"A","N">>)
    /\ result = T

\* C23: on a record value that is not absent, the amount predicate with
\* 'between' gives true if and only if the record value, minAmount and
\* maxAmount are numbers once converted and minAmount <= value <= maxAmount,
\* both bounds included and taken as they are; so it gives false when one of
\* the three is not a number, and for every value when minAmount > maxAmount.
C23_AmountBetweenIsInclusive ==
    (IsApplied("amount") /\ conds[1].operator = "between") =>
        LET numValue == ToNumber(resolved(employees[1], conds[1]))
            minAmount == ToNumber(GetProp(conds[1].value, K_minAmount))
            maxAmount == ToNumber(GetProp(conds[1].value, K_maxAmount))
        IN /\ result = Outcome(/\ numValue.t = "number"
                                /\ minAmount.t = "number" /\ maxAmount.t = "number"
                                /\ minAmount.n <= numValue.n
                                /\ numValue.n <= maxAmount.n)
           /\ (minAmount.t = "number" /\ maxAmount.t = "number"
               /\ minAmount.n > maxAmount.n) => result = F

\* A salary given as the string "70", at the lower bound of 70..95
C23_Witness ==
    /\ IsApplied("amount") /\ conds[1].operator = "between"
    /\ employees[1] = Bob /\ conds[1].field = K_salary
    /\ conds[1].value = AmountValue(Num(70), Num(95))
    /\ result = T

\* C24: on a record value that is not absent, the singleSelect predicate
\* compares the string of the record value with the filter's value, letter
\* for letter and case included: 'is' is true if and only if the filter's
\* value is that very string, and 'isNot' if and only if it is not.
C24_SingleSelectIsExact ==
    (IsApplied("singleSelect") /\ conds[1].operator \in FIELD_TYPE_OPERATORS["singleSelect"]) =>
        LET same == GetProp(conds[1].value, K_value)
                      = Str(ToStringValue(resolved(employees[1], conds[1])))
        IN result = Outcome(conds[1].operator = "is" <=> same)

\* The city "NY" is not "nY", which as a text condition it would equal
C24_Witness ==
    /\ IsApplied("singleSelect") /\ conds[1].operator = "is"
    /\ employees[1] = Ann /\ conds[1].field = K_addressCity
    /\ conds[1].value = SelectValue(<<"n","Y">>)
    /\ evaluate(employees[1], [conds[1] EXCEPT !.fieldType = "text",
                                                !.operator = "equals"]) = T
    /\ result = F

\* The path the claim has filterEmployees resolve for a condition
ExpectedPath(condition) ==
    IF condition.field \in DOMAIN fieldPaths THEN fieldPaths[condition.field]
    ELSE condition.field

\* The outcome of the condition's predicate on a value: the condition put on
\* a record that holds the value under 'id', with no path given
OnValue(condition, value) ==
    applyFilterCondition(Object(<< <<K_id, value>> >>), [condition EXCEPT !.field = K_id],
                         Undefined, tzOffset)

\* C25: filterEmployees evaluates a condition on the value found in the
\* record at the path map's entry for condition.field when the map has one
\* and at condition.field otherwise, so that a condition on 'address.city'
\* gives the same with the entry 'address.city' and with no entry.
C25_PathIsEntryOrField ==
    (pc = "filtered" /\ conds[1] \in ProbeConditions) =>
        LET outcome == OnValue(conds[1], getNestedValue(employees[1],
                                                        ExpectedPath(conds[1])))
        IN /\ result = (IF outcome = TypeError THEN Raised
                         ELSE IF outcome = T THEN Returned(employees)
                         ELSE Returned(<<>>))
           /\ conds[1].field = K_addressCity =>
                 /\ result = filterEmployees(employees, conds, NoPaths, tzOffset)
                 /\ result = filterEmployees(employees, conds, ConfigPaths, tzOffset)

\* A condition on 'zip', which the map sends to address.city, keeps the
\* record whose city matches and that has no 'zip'
C25_Witness ==
    /\ pc = "filtered" /\ conds[1] \in ProbeConditions
    /\ fieldPaths = AliasPaths /\ conds[1].field = K_zip
    /\ employees[1] = Ann /\ GetProp(Ann, K_zip) = Undefined
    /\ conds[1].fieldType = "text" /\ conds[1].operator = "equals"
    /\ conds[1].value = TextValue(<<"n","Y">>)
    /\ result = Returned(<<Ann>>)

----------------------------------------------------------------------------
(* Properties of isValidFilterCondition *)

\* isValidFilterCondition was called on a condition of the field type
IsValidated(fieldType) == pc = "validated" /\ conds[1].fieldType = fieldType

\* The payload is null or undefined, or has no property of the name
Lacks(value, key) == IsNullish(value) \/ GetProp(value, key) = Undefined

\* C14: a date condition (startDate and endDate strings) is valid if and only
\* if both strings are dates and startDate is not after endDate, the dates
\* compared as the ISO strings they are; a payload without a startDate or an
\* endDate is invalid.
C14_DateValidity ==
    IsValidated("date") =>
        LET value == conds[1].value
            s == GetProp(value, K_startDate).s
            e == GetProp(value, K_endDate).s
        IN /\ HasShape("date", value) =>
                result = Outcome(IsIsoDate(s) /\ IsIsoDate(e) /\ stringLE(s, e))
           /\ (Lacks(value, K_startDate) \/ Lacks(value, K_endDate)) => result = F

\* Two dates, the start a day after the end, across the end of a month
C14_Witness ==
    /\ IsValidated("date") /\ conds[1].value = DateValue(July01, June30)
    /\ result = F

\* A number, NaN, or nothing (the property is missing)
IsNumberOrMissing(v) == IsNumber(v) \/ v = Undefined

C16_NumberValidity ==
    IsValidated("number") =>
        result = Outcome(~IsNullish(conds[1].value)
                         /\ GetProp(conds[1].value, K_value).t = "number")

\* C17 (as claimed): a singleSelect condition is valid if and only if
\* value.value is a non-empty string; the empty string, a missing value and
\* every value that is no string are rejected.
C17_SingleSelectValidity ==
    IsValidated("singleSelect") =>
        result = Outcome(/\ ~IsNullish(conds[1].value)
                         /\ GetProp(conds[1].value, K_value).t = "string"
                         /\ GetProp(conds[1].value, K_value).s # <<>>)

\* C18: a text condition is valid if and only if value.value is a string
\* with a character that is not white space; the empty string, strings of
\* white space, a missing value and a null or undefined payload are rejected.
C18_TextValidity ==
    IsValidated("text") =>
        LET v == IF IsNullish(conds[1].value) THEN Undefined
                 ELSE GetProp(conds[1].value, K_value)
        IN result = Outcome(v.t = "string" /\ \E i \in 1..Len(v.s) : v.s[i] # " ")

\* A value of blanks only is rejected
C18_Witness ==
    /\ IsValidated("text") /\ conds[1].value = TextValue(<<" "," ">>)
    /\ result = F

C28_ValidConditionsNeverRaise ==
    (pc = "filtered" /\ isValidFilterCondition(conds[1]) = T
     /\ HasShape(conds[1].fieldType, conds[1].value)) =>
        ~result.raised

\* A boolean condition on a record whose isActive is the number 0
C28_Witness ==
    /\ pc = "filtered" /\ isValidFilterCondition(conds[1]) = T
    /\ HasShape(conds[1].fieldType, conds[1].value)
    /\ employees[1] = Cy /\ conds[1].field = K_isActive
    /\ GetProp(Cy, K_isActive) = Num(0)
    /\ conds[1].fieldType = "boolean" /\ conds[1].operator = "is"
    /\ result = Returned(<<Cy>>)

----------------------------------------------------------------------------
(* Properties of the FilterBuilder *)

\* The conditions on the screen that fail isValidFilterCondition
FailingIds == {conditions[i].id : i \in {j \in Rows : isValidFilterCondition(conditions[j]) = F}}

\* C8: an Apply with a condition that fails validation does not call
\* filterEmployees, leaves the shown data as it is and flags exactly the
\* failing conditions; an Apply with every condition valid flags none and
\* shows filterEmployees(data, conditions, fieldPaths).
C8_ApplyIsGatedByValidation ==
    [][HandleApplyFilters =>
          IF FailingIds # {}
          THEN /\ ~engineCalled'
               /\ filteredData' = filteredData
               /\ conditionErrors' = FailingIds
          ELSE /\ conditionErrors' = {}
               /\ engineCalled'
               /\ Returned(filteredData') =
                     filterEmployees(mockEmployees, conditions, ConfigPaths, tzOffset)]_vars

\* After a filter was applied, an Apply with one valid and one invalid
\* condition: the invalid one is flagged and the filtered data still shown.
C8_Witness ==
    /\ Len(conditions) = 2
    /\ Cardinality(conditionErrors) = 1 /\ conditionErrors = FailingIds
    /\ ~engineCalled
    /\ filteredData # mockEmployees

C26_EmptyShowsAll == conditions = <<>> => filteredData = mockEmployees

\* C27: the table shows the whole data set at first; Clear All shows the
\* whole data set; an Apply in which every condition is valid shows
\* filterEmployees(data, conditions, fieldPaths); every other operation (add,
\* update, remove, an Apply with an invalid condition) leaves the shown data
\* as it is.  So the shown data is always the whole data set or the result
\* of the last successful Apply.
C27_ShownDataChangesOnlyOnApplyAndClear ==
    /\ filteredData = mockEmployees
    /\ [][IF HandleClearAll THEN filteredData' = mockEmployees
          ELSE IF HandleApplyFilters /\ FailingIds = {}
          THEN Returned(filteredData') =
                  filterEmployees(mockEmployees, conditions, ConfigPaths, tzOffset)
          ELSE filteredData' = filteredData]_vars

\* A filter was applied and a condition changed since: the table still
\* shows the result of the Apply, not what the conditions would give now.
C27_Witness ==
    /\ Len(conditions) = 1 /\ ~engineCalled /\ conditionErrors = {}
    /\ isValidFilterCondition(conditions[1]) = T
    /\ filteredData # mockEmployees
    /\ Returned(filteredData) #
          filterEmployees(mockEmployees, conditions, ConfigPaths, tzOffset)

\* The payload of the condition is the one its field type starts with.
HasDefaultPayload(condition) ==
    condition.value = getDefaultValueForFieldType(condition.fieldType)

\* The field types whose default payload is a usable filter
PassesByDefault(fieldType) == fieldType \in {"number", "amount", "boolean"}

\* C30: Add Filter appends the condition (name, text, equals, '') and it fails
\* isValidFilterCondition; a condition just switched to a field passes
\* isValidFilterCondition with its default payload if the field is a number,
\* amount or boolean field and fails it if the field is a text, date,
\* singleSelect or multiSelect field; Apply Filters flags the conditions with
\* a failing default payload, does not flag those with a passing one, and
\* leaves the shown data as it was when it flags a condition.  (A step of
\* handleFieldChange on row i to a field leaves that field in row i, so the
\* field of the row after the step is the only one to look at.)
C30_DefaultPayloads ==
    [][/\ HandleAddCondition =>
             LET newCondition == conditions'[Len(conditions')]
             IN /\ newCondition.field = K_name
                /\ newCondition.fieldType = "text"
                /\ newCondition.operator = "equals"
                /\ newCondition.value = TextValue(<<>>)
                /\ isValidFilterCondition(newCondition) = F
       /\ \A i \in Rows \cap DOMAIN conditions' :
             HandleFieldChange(i, conditions'[i].field) =>
                /\ HasDefaultPayload(conditions'[i])
                /\ isValidFilterCondition(conditions'[i]) =
                      IF PassesByDefault(conditions'[i].fieldType) THEN T ELSE F
       /\ HandleApplyFilters =>
             /\ \A i \in Rows :
                   HasDefaultPayload(conditions[i]) =>
                      ((conditions[i].id \in conditionErrors')
                       <=> ~PassesByDefault(conditions[i].fieldType))
             /\ (\E i \in Rows : /\ HasDefaultPayload(conditions[i])
                                 /\ ~PassesByDefault(conditions[i].fieldType)) =>
                   filteredData' = filteredData]_vars

\* A condition switched to the boolean field was applied with its default
\* payload and narrowed the table; a condition was then added and Apply
\* Filters flagged it, and it alone, leaving the table as it was.
C30_Witness ==
    /\ Len(conditions) = 2
    /\ conditions[1].fieldType = "boolean" /\ HasDefaultPayload(conditions[1])
    /\ conditions[2].field = K_name /\ conditions[2].operator = "equals"
    /\ conditions[2].value = TextValue(<<>>)
    /\ conditionErrors = {conditions[2].id}
    /\ filteredData # mockEmployees

====
